---- MODULE Spec2Model ----
(***************************************************************************)
(* The client edit session of one document (ClientEditDoc, edit_doc.rs):   *)
(* the facade's local edit calls, its handler of inbound web-socket        *)
(* messages, and the three workers it drives: the Document Actor, the      *)
(* Revision Manager and the Revision Store Worker.                         *)
(*                                                                         *)
(* A Delta is opaque to the session.  It is modelled by the identity `op`  *)
(* of the edit that produced it and by whether the document accepts it     *)
(* (`fits`); the document content is the sequence of the deltas composed   *)
(* into it, in order.                                                      *)
(*                                                                         *)
(* Every local edit call and every spawned handler of an inbound message   *)
(* is a process of its own: the session is shared (&self), so any number   *)
(* of calls may be in flight at once.                                      *)
(***************************************************************************)
EXTENDS Integers, Sequences, FiniteSets

\* ------------------------------------------------------------------ bounds
MaxOps == 2             \* local edit calls and inbound messages in one behaviour
MaxStateChanges == 1    \* connection-state transitions in one behaviour
MaxPushBase == 1        \* pushed revisions are based on InitRevId .. InitRevId + MaxPushBase
MaxIoFailures == 1      \* persistence failures of the store other than a rejected base
InitRevId == 0          \* the rev_id fetch_document returned when the session was opened
MaxMutations == 2       \* mutations of a sequential session that are undone and redone

\* A call slot for every call of a behaviour: MaxOps concurrent ones, or the
\* mutations, undos and redos of a sequential session.
MaxCalls == IF MaxOps > 3 * MaxMutations THEN MaxOps ELSE 3 * MaxMutations
CallIds == 1..MaxCalls
MsgIds == 1..MaxOps
NoRev == 0 - 1          \* "no revision id"
NoOp == NoRev           \* "no delta"

\* The delta of local call n, and of the revision pushed by inbound message t.
LocalOp(n) == n
RemoteOp(t) == MaxCalls + t
IsLocalOp(op) == op \in CallIds

EditKinds == {"Insert", "Delete", "Format", "Replace"}

VARIABLES
    \* ClientEditDoc::new
    new_pc,          \* where the construction is, and how it ended
    spawned,         \* the workers spawned or created so far
    rev_store,       \* the live senders to the Revision Store Worker's mailbox
    \* Document Actor
    running,         \* it is spawned and serves its mailbox
    document,        \* its mailbox: the EditMsg sent and not yet handled
    delta,           \* the document content: the deltas composed so far
    undo_stack,
    redo_stack,
    saved_rev_id,    \* the watermark of the last SaveDocument
    \* Revision Manager
    rev_id_counter,  \* the head rev_id
    outbox,          \* revisions added and not yet acknowledged
    ws_sent,         \* the rev_ids transmitted over the web socket, in order
    ws_state,
    \* Revision Store Worker
    chain,           \* the persisted revisions, in order
    io_failures,
    \* the processes
    calls,           \* per local edit call: where it is, its locals, its outcome
    tasks,           \* per inbound message: where its spawned handler is, its locals
    rx,              \* the receiving end of the oneshot channel each one awaits
    \* the record of what happened
    handed,          \* the revisions passed to add_revision, in order
    saves,           \* the rev_ids of the SaveDocument the actor handled, in order
    next_call,
    msgs,            \* inbound messages received so far
    state_changes

session_vars == <<new_pc, spawned, rev_store>>
actor_vars == <<running, document, delta, undo_stack, redo_stack, saved_rev_id, saves>>
manager_vars == <<rev_id_counter, outbox, ws_sent, ws_state>>
store_vars == <<chain, io_failures, handed>>
count_vars == <<next_call, msgs, state_changes>>
vars == <<new_pc, spawned, rev_store, running, document, delta, undo_stack, redo_stack,
          saved_rev_id, rev_id_counter, outbox,
          ws_sent, ws_state, chain, io_failures, calls, tasks, rx, handed, saves,
          next_call, msgs, state_changes>>

\* ------------------------------------------------------------------ values
\* Bytes: a serialized value, or bytes that decode to nothing (wf = FALSE).
Delta_to_bytes(d) == [wf |-> TRUE, op |-> d.op, fits |-> d.fits]
BadBytes == [wf |-> FALSE, op |-> NoOp, fits |-> FALSE]
\* Delta::from_bytes: the delta, or a failure for malformed bytes.
Delta_from_bytes(b) ==
    IF b.wf THEN [ok |-> TRUE, delta |-> [op |-> b.op, fits |-> b.fits]]
    ELSE [ok |-> FALSE, delta |-> [op |-> NoOp, fits |-> FALSE]]

NoRevision == [base_rev_id |-> NoRev, rev_id |-> NoRev, delta_data |-> BadBytes, ty |-> "None"]
Revision_new(base_rev_id, rev_id, delta_data, ty) ==
    [base_rev_id |-> base_rev_id, rev_id |-> rev_id, delta_data |-> delta_data, ty |-> ty]

\* The oneshot channel of a call or task, named by who awaits it.
CallRet(n) == <<"call", n>>
TaskRet(t) == <<"task", t>>
Owners == {CallRet(n) : n \in CallIds} \cup {TaskRet(t) : t \in MsgIds}
NoChannel == [st |-> "none", op |-> NoOp, flag |-> FALSE, data |-> <<>>]
Waiting == [st |-> "waiting", op |-> NoOp, flag |-> FALSE, data |-> <<>>]
\* The sender was dropped without a value: the receiver gets a RecvError.
Closed == [st |-> "closed", op |-> NoOp, flag |-> FALSE, data |-> <<>>]

EditMsg(ty, d, rev_id, ret) ==
    [ty |-> ty, op |-> d.op, fits |-> d.fits, rev_id |-> rev_id, ret |-> ret]

NoCall == [pc |-> "unused", kind |-> "None", verdict |-> "none", delta_data |-> BadBytes,
           revision |-> NoRevision, added |-> FALSE,
           answer |-> FALSE, data |-> <<>>, rev_id |-> NoRev]
NoRange == [start |-> NoRev, end |-> NoRev]
NoTask == [pc |-> "unused", ty |-> "None", wf |-> FALSE, revision |-> NoRevision,
           range |-> NoRange, rev_id |-> NoRev, matched |-> FALSE, added |-> FALSE,
           result |-> "none"]

\* Local edit calls and inbound messages issued so far.
Issued == (next_call - 1) + msgs
\* The session exists, and the behaviour has room for one more call or message.
MayIssue == new_pc = "ok" /\ Issued < MaxOps

\* ------------------------------------------------------------------ Init
\* ClientEditDoc::new is entered: no worker exists.  The workers' states are the ones
\* they are seeded with once the construction succeeds: the Revision Manager with the
\* fetched rev_id, the Document Actor with the fetched delta (the empty composition
\* on top of it).  The store serves the document from its local chain, so the session
\* opens with the web socket connected or not.
Init ==
    /\ new_pc = "user_id"
    /\ spawned = {}
    /\ rev_store = 0
    /\ running = FALSE
    /\ document = <<>>
    /\ delta = <<>>
    /\ undo_stack = <<>>
    /\ redo_stack = <<>>
    /\ saved_rev_id = InitRevId
    /\ rev_id_counter = InitRevId
    /\ outbox = {}
    /\ ws_sent = <<>>
    /\ ws_state \in {"Connected", "Disconnected"}
    /\ chain = <<>>
    /\ io_failures = 0
    /\ calls = [n \in CallIds |-> NoCall]
    /\ tasks = [t \in MsgIds |-> NoTask]
    /\ rx = [o \in Owners |-> NoChannel]
    /\ handed = <<>>
    /\ saves = <<>>
    /\ next_call = 1
    /\ msgs = 0
    /\ state_changes = 0

\* ------------------------------------------------------------------ new
\* A construction that spawns the Revision Store Worker before it resolves the
\* identity.
new_user_id_after_spawn(ok) ==
    /\ new_pc = "user_id"
    /\ spawned' = spawned \cup {"RevisionStoreActor"}
    /\ IF ok
       THEN /\ rev_store' = rev_store + 2
            /\ new_pc' = "fetch_document"
       ELSE /\ new_pc' = "user_id_failed"
            /\ UNCHANGED rev_store
    /\ UNCHANGED <<actor_vars, manager_vars, store_vars, calls, tasks, rx, count_vars>>

\* new up to fetch_document(..).await: the identity is resolved; then the Revision
\* Store Worker is spawned and a clone of its sender is given to fetch_document.
new_user_id(ok) ==
    /\ new_pc = "user_id"
    /\ IF ok
       THEN /\ spawned' = spawned \cup {"RevisionStoreActor"}
            /\ rev_store' = rev_store + 2
            /\ new_pc' = "fetch_document"
       ELSE /\ new_pc' = "user_id_failed"
            /\ UNCHANGED <<spawned, rev_store>>
    /\ UNCHANGED <<actor_vars, manager_vars, store_vars, calls, tasks, rx, count_vars>>

\* fetch_document returned and dropped its sender.  On Ok the Revision Manager is
\* created, taking the remaining sender, and the Document Actor is spawned; on Err
\* new returns and the remaining sender is dropped with its frame.
new_fetched(ok) ==
    /\ new_pc = "fetch_document"
    /\ IF ok
       THEN /\ spawned' = spawned \cup {"RevisionManager", "DocumentEditActor"}
            /\ rev_store' = rev_store - 1
            /\ running' = TRUE
            /\ new_pc' = "ok"
       ELSE /\ rev_store' = rev_store - 2
            /\ new_pc' = "fetch_failed"
            /\ UNCHANGED <<spawned, running>>
    /\ UNCHANGED <<document, delta, undo_stack, redo_stack, saved_rev_id, saves,
                   manager_vars, store_vars, calls, tasks, rx, count_vars>>

new == \E ok \in BOOLEAN : new_user_id(ok) \/ new_fetched(ok)

\* ------------------------------------------------------------------ oneshot
\* ret.send(value): delivered if the receiver still waits, dropped otherwise (the
\* receiver was dropped with the future that held it).
Delivered(ret, st, op) ==
    IF rx[ret].st = "waiting"
    THEN [rx EXCEPT ![ret] = [st |-> st, op |-> op, flag |-> FALSE, data |-> <<>>]]
    ELSE rx

\* ret.send(Ok(data)) of the Doc command.
DeliveredDoc(ret, data) ==
    IF rx[ret].st = "waiting"
    THEN [rx EXCEPT ![ret] = [st |-> "ok", op |-> NoOp, flag |-> FALSE, data |-> data]]
    ELSE rx

\* ret.send(flag) of the CanUndo and CanRedo commands.
DeliveredBool(ret, flag) ==
    IF rx[ret].st = "waiting"
    THEN [rx EXCEPT ![ret] = [st |-> "ok", op |-> NoOp, flag |-> flag, data |-> <<>>]]
    ELSE rx

\* rx.await returns: a value was sent, or the sender was dropped.
Replied(o) == rx[o].st \in {"ok", "err", "closed"}

\* A receiver that keeps waiting although its message was dropped.
Receiver_waits == Waiting

\* self.document.send(msg) with the result ignored: the message joins the mailbox of
\* a running Document Actor; otherwise it is dropped, and its reply sender with it.
Sent(msg) == IF running THEN Append(document, msg) ELSE document
Receiver == IF running THEN Waiting ELSE Closed

\* A caller that goes on whatever the Document Actor replied.
ReplyFailed_ignored(r) == FALSE

\* rx.await.map_err(internal_error)?? : the call fails when the reply sender was
\* dropped or the actor replied Err.
ReplyFailed(r) == r.st \in {"err", "closed"}

\* ------------------------------------------------------------------ Document Actor
\* The sequence without the last occurrence of op.
WithoutLast(seq, op) ==
    LET at == {i \in 1..Len(seq) : seq[i] = op} IN
    IF at = {} THEN seq
    ELSE LET last == CHOOSE i \in at : \A j \in at : j <= i
         IN SubSeq(seq, 1, last - 1) \o SubSeq(seq, last + 1, Len(seq))

\* The call that awaits the reply of a message.
Caller(m) == m.ret[2]
IsCall(m) == m.ret[1] = "call"

\* What the Document Actor's handling of the message tells about the call that
\* sent it.
ActorVerdict(m) ==
    IF m.ty \in EditKinds \cup {"Delta"} THEN (IF m.fits THEN "applied" ELSE "rejected")
    ELSE IF m.ty = "Undo" THEN (IF undo_stack # <<>> THEN "undone" ELSE "nothing")
    ELSE IF m.ty = "Redo" THEN (IF redo_stack # <<>> THEN "redone" ELSE "nothing")
    ELSE IF m.ty = "CanUndo" THEN (IF undo_stack # <<>> THEN "nonempty" ELSE "empty")
    ELSE IF m.ty = "CanRedo" THEN (IF redo_stack # <<>> THEN "nonempty" ELSE "empty")
    ELSE "read"

\* DocumentEditActor::run: takes the message at the head of the mailbox and handles
\* it to completion before the next one.
DocumentEditActor_handle ==
    /\ running
    /\ document # <<>>
    /\ LET m == Head(document) IN
       /\ document' = Tail(document)
       /\ IF m.ty \in EditKinds
          THEN \* compose the edit, push it on the undo stack, clear the redo stack
               /\ delta' = IF m.fits THEN Append(delta, m.op) ELSE delta
               /\ undo_stack' = IF m.fits THEN Append(undo_stack, m.op) ELSE undo_stack
               /\ redo_stack' = IF m.fits THEN <<>> ELSE redo_stack
               /\ rx' = Delivered(m.ret, IF m.fits THEN "ok" ELSE "err", m.op)
               /\ UNCHANGED <<saved_rev_id, saves>>
          ELSE IF m.ty = "Delta"
          THEN \* compose the given delta; the undo and redo stacks are not touched
               /\ delta' = IF m.fits THEN Append(delta, m.op) ELSE delta
               /\ rx' = Delivered(m.ret, IF m.fits THEN "ok" ELSE "err", m.op)
               /\ UNCHANGED <<undo_stack, redo_stack, saved_rev_id, saves>>
          ELSE IF m.ty = "Undo"
          THEN \* pop the undo stack, apply the inverse, push on the redo stack
               IF undo_stack # <<>>
               THEN LET op == undo_stack[Len(undo_stack)] IN
                    /\ delta' = WithoutLast(delta, op)
                    /\ undo_stack' = SubSeq(undo_stack, 1, Len(undo_stack) - 1)
                    /\ redo_stack' = Append(redo_stack, op)
                    /\ rx' = Delivered(m.ret, "ok", op)
                    /\ UNCHANGED <<saved_rev_id, saves>>
               ELSE /\ rx' = Delivered(m.ret, "ok", NoOp)
                    /\ UNCHANGED <<delta, undo_stack, redo_stack, saved_rev_id, saves>>
          ELSE IF m.ty = "Redo"
          THEN \* pop the redo stack, apply the operation again, push on the undo stack
               IF redo_stack # <<>>
               THEN LET op == redo_stack[Len(redo_stack)] IN
                    /\ delta' = Append(delta, op)
                    /\ redo_stack' = SubSeq(redo_stack, 1, Len(redo_stack) - 1)
                    /\ undo_stack' = Append(undo_stack, op)
                    /\ rx' = Delivered(m.ret, "ok", op)
                    /\ UNCHANGED <<saved_rev_id, saves>>
               ELSE /\ rx' = Delivered(m.ret, "ok", NoOp)
                    /\ UNCHANGED <<delta, undo_stack, redo_stack, saved_rev_id, saves>>
          ELSE IF m.ty = "CanUndo"
          THEN /\ rx' = DeliveredBool(m.ret, undo_stack # <<>>)
               /\ UNCHANGED <<delta, undo_stack, redo_stack, saved_rev_id, saves>>
          ELSE IF m.ty = "CanRedo"
          THEN /\ rx' = DeliveredBool(m.ret, redo_stack # <<>>)
               /\ UNCHANGED <<delta, undo_stack, redo_stack, saved_rev_id, saves>>
          ELSE IF m.ty = "Doc"
          THEN /\ rx' = DeliveredDoc(m.ret, delta)
               /\ UNCHANGED <<delta, undo_stack, redo_stack, saved_rev_id, saves>>
          ELSE \* SaveDocument
               /\ saved_rev_id' = m.rev_id
               /\ saves' = Append(saves, m.rev_id)
               /\ rx' = Delivered(m.ret, "ok", NoOp)
               /\ UNCHANGED <<delta, undo_stack, redo_stack>>
       /\ calls' = IF m.ty # "SaveDocument" /\ IsCall(m)
                   THEN [calls EXCEPT ![Caller(m)].verdict = ActorVerdict(m)]
                   ELSE calls
    /\ UNCHANGED <<session_vars, running, manager_vars, store_vars, tasks, count_vars>>

\* The Document Actor stops: its receiver is dropped, and with it every message of
\* the mailbox and the reply sender each one holds.
DocumentEditActor_stop ==
    /\ running
    /\ running' = FALSE
    /\ document' = <<>>
    /\ rx' = [o \in Owners |->
                IF rx[o].st = "waiting" /\ \E i \in 1..Len(document) : document[i].ret = o
                THEN Closed ELSE rx[o]]
    /\ UNCHANGED <<session_vars, delta, undo_stack, redo_stack, saved_rev_id, saves,
                   manager_vars, store_vars, calls, tasks, count_vars>>

\* ------------------------------------------------------------------ Revision Manager
\* next_rev_id: the pair (head, head + 1); the head advances to the second.
next_rev_id == [base_rev_id |-> rev_id_counter, rev_id |-> rev_id_counter + 1]

\* The rev_id the store's chain ends with.
PersistedHead == IF chain = <<>> THEN InitRevId ELSE chain[Len(chain)].rev_id

\* Whether the store persists the revision: its base is the persisted head and the
\* write does not fail.
Persists(revision, io_ok) == io_ok /\ revision.base_rev_id = PersistedHead

IoOutcomes == IF io_failures < MaxIoFailures THEN {TRUE, FALSE} ELSE {TRUE}

\* add_revision: the store persists the revision; then it joins the outbox and is
\* transmitted.  A revision the store does not persist is an error to the caller.
add_revision(revision, io_ok) ==
    /\ handed' = Append(handed, revision)
    /\ io_failures' = IF io_ok THEN io_failures ELSE io_failures + 1
    /\ chain' = IF Persists(revision, io_ok) THEN Append(chain, revision) ELSE chain
    /\ outbox' = IF Persists(revision, io_ok) THEN outbox \cup {revision} ELSE outbox
    /\ ws_sent' = IF Persists(revision, io_ok) THEN Append(ws_sent, revision.rev_id) ELSE ws_sent

\* ack_rev: the acknowledged revision leaves the outbox; a rev_id that is not in it
\* changes nothing.
ack_rev(rev_id) == outbox' = {r \in outbox : r.rev_id # rev_id}

RECURSIVE Ascending(_)
\* The numbers of a set in ascending order.
Ascending(S) ==
    IF S = {} THEN <<>>
    ELSE LET least == CHOOSE x \in S : \A y \in S : x <= y
         IN <<least>> \o Ascending(S \ {least})

\* send_revisions: the persisted revisions of the range are transmitted.
send_revisions(range) ==
    ws_sent' = ws_sent \o Ascending({chain[i].rev_id : i \in {j \in 1..Len(chain) :
                                       range.start <= chain[j].rev_id /\ chain[j].rev_id <= range.end}})

\* handle_ws_state_changed: the state is recorded; on a connection every revision of
\* the outbox is transmitted again, in ascending rev_id order.
handle_ws_state_changed(state) ==
    /\ ws_state' = state
    /\ ws_sent' = IF state = "Connected"
                  THEN ws_sent \o Ascending({r.rev_id : r \in outbox})
                  ELSE ws_sent

\* ------------------------------------------------------------------ local edits
\* A call ends with its result.
Finished(n, result) == calls' = [calls EXCEPT ![n].pc = result]

\* insert, delete, format, replace up to their first await: the EditMsg is sent to
\* the Document Actor and the caller awaits the reply.
send_edit(kind, fits) ==
    /\ LET n == next_call IN
       /\ document' = Sent(EditMsg(kind, [op |-> LocalOp(n), fits |-> fits], NoRev, CallRet(n)))
       /\ rx' = [rx EXCEPT ![CallRet(n)] = Receiver]
       /\ calls' = [calls EXCEPT ![n] = [NoCall EXCEPT !.pc = "await_edit", !.kind = kind]]
       /\ next_call' = n + 1
    /\ UNCHANGED <<session_vars, running, delta, undo_stack, redo_stack, saved_rev_id, saves, manager_vars,
                   store_vars, tasks, msgs, state_changes>>

SendEdit(kind, fits) == MayIssue /\ send_edit(kind, fits)

insert(fits) == SendEdit("Insert", fits)
delete(fits) == SendEdit("Delete", fits)
format(fits) == SendEdit("Format", fits)
replace(fits) == SendEdit("Replace", fits)

\* compose_local_delta up to its first await: the bytes are decoded, and the delta
\* is sent to the Document Actor.
compose_local_delta(data) ==
    /\ MayIssue
    /\ LET n == next_call
           decoded == Delta_from_bytes(data) IN
       /\ next_call' = n + 1
       /\ IF decoded.ok
          THEN /\ document' = Sent(EditMsg("Delta", decoded.delta, NoRev, CallRet(n)))
               /\ rx' = [rx EXCEPT ![CallRet(n)] = Receiver]
               /\ calls' = [calls EXCEPT ![n] = [NoCall EXCEPT !.pc = "await_edit",
                                                               !.kind = "Compose",
                                                               !.delta_data = data]]
          ELSE /\ calls' = [calls EXCEPT ![n] = [NoCall EXCEPT !.pc = "failed",
                                                               !.kind = "Compose",
                                                               !.verdict = "undecodable"]]
               /\ UNCHANGED <<document, rx>>
    /\ UNCHANGED <<session_vars, running, delta, undo_stack, redo_stack, saved_rev_id, saves, manager_vars,
                   store_vars, tasks, msgs, state_changes>>

\* A revision built with the pair's members swapped.
mk_revision_swapped(pair, delta_data) ==
    Revision_new(pair.rev_id, pair.base_rev_id, delta_data, "Local")

\* The revision mk_revision builds from the pair next_rev_id returned.
mk_revision_new(pair, delta_data) ==
    Revision_new(pair.base_rev_id, pair.rev_id, delta_data, "Local")

\* The Document Actor replied.  An Err ends the call; otherwise the caller holds the
\* delta's bytes and enters mk_revision, which takes the next pair of rev_ids.
edit_replied(n) ==
    /\ calls[n].pc = "await_edit"
    /\ Replied(CallRet(n))
    /\ LET r == rx[CallRet(n)]
           delta_data == IF calls[n].kind = "Compose" THEN calls[n].delta_data
                         ELSE Delta_to_bytes([op |-> r.op, fits |-> TRUE]) IN
       IF ReplyFailed(r)
       THEN /\ Finished(n, "failed")
            /\ UNCHANGED rev_id_counter
       ELSE /\ rev_id_counter' = next_rev_id.rev_id
            /\ calls' = [calls EXCEPT ![n].pc = "add_revision",
                                      ![n].delta_data = delta_data,
                                      ![n].revision = mk_revision_new(next_rev_id, delta_data)]
    /\ rx' = [rx EXCEPT ![CallRet(n)] = NoChannel]
    /\ UNCHANGED <<session_vars, actor_vars, outbox, ws_sent, ws_state, store_vars, tasks, count_vars>>

\* mk_revision: add_revision(revision).await
mk_revision_add(n) ==
    /\ calls[n].pc = "add_revision"
    /\ \E io_ok \in IoOutcomes :
        /\ add_revision(calls[n].revision, io_ok)
        /\ calls' = [calls EXCEPT ![n].pc = "added",
                                  ![n].added = Persists(calls[n].revision, io_ok)]
    /\ UNCHANGED <<session_vars, actor_vars, rev_id_counter, ws_state, rx, tasks, count_vars>>

\* save_document up to its await: SaveDocument{rev_id} is sent to the Document Actor.
save_document(owner, rev_id) ==
    /\ document' = Sent(EditMsg("SaveDocument", [op |-> NoOp, fits |-> TRUE], rev_id, owner))
    /\ rx' = [rx EXCEPT ![owner] = Receiver]

\* Whether the call checkpoints the Document Actor after its revision was added.
SavesDocument(kind) == kind \in {"Insert", "Compose"}

\* A call that goes on to save_document whatever add_revision returned.
mk_revision_returned_unchecked(n) ==
    /\ calls[n].pc = "added"
    /\ IF SavesDocument(calls[n].kind)
       THEN /\ save_document(CallRet(n), calls[n].revision.rev_id)
            /\ calls' = [calls EXCEPT ![n].pc = "await_save"]
       ELSE /\ Finished(n, IF calls[n].added THEN "ok" ELSE "failed")
            /\ UNCHANGED <<document, rx>>
    /\ UNCHANGED <<session_vars, running, delta, undo_stack, redo_stack, saved_rev_id, saves,
                   manager_vars, store_vars, tasks, count_vars>>

\* mk_revision returned: an Err ends the call; insert and compose_local_delta go on
\* to save_document; delete, format and replace return Ok.
mk_revision_returned(n) ==
    /\ calls[n].pc = "added"
    /\ IF ~calls[n].added
       THEN /\ Finished(n, "failed")
            /\ UNCHANGED <<document, rx>>
       ELSE IF SavesDocument(calls[n].kind)
       THEN /\ save_document(CallRet(n), calls[n].revision.rev_id)
            /\ calls' = [calls EXCEPT ![n].pc = "await_save"]
       ELSE /\ Finished(n, "ok")
            /\ UNCHANGED <<document, rx>>
    /\ UNCHANGED <<session_vars, running, delta, undo_stack, redo_stack, saved_rev_id, saves, manager_vars,
                   store_vars, tasks, count_vars>>

\* save_document's reply arrived: it is the result of the call.
save_replied(n) ==
    /\ calls[n].pc = "await_save"
    /\ Replied(CallRet(n))
    /\ Finished(n, IF ReplyFailed(rx[CallRet(n)]) THEN "failed" ELSE "ok")
    /\ rx' = [rx EXCEPT ![CallRet(n)] = NoChannel]
    /\ UNCHANGED <<session_vars, actor_vars, manager_vars, store_vars, tasks, count_vars>>

\* The caller's future is dropped while it awaits the Document Actor's reply: the
\* receiver is gone, the message already sent stays in the mailbox.
abandon(n) ==
    /\ calls[n].pc = "await_edit"
    /\ Finished(n, "abandoned")
    /\ rx' = [rx EXCEPT ![CallRet(n)] = NoChannel]
    /\ UNCHANGED <<session_vars, actor_vars, manager_vars, store_vars, tasks, count_vars>>

\* undo, redo, can_undo, can_redo, doc up to their await: the command is sent to the
\* Document Actor and the caller awaits the reply.
send_command(kind, ty, pc) ==
    /\ LET n == next_call IN
       /\ document' = Sent(EditMsg(ty, [op |-> NoOp, fits |-> TRUE], NoRev, CallRet(n)))
       /\ rx' = [rx EXCEPT ![CallRet(n)] = Receiver]
       /\ calls' = [calls EXCEPT ![n] = [NoCall EXCEPT !.pc = pc, !.kind = kind]]
       /\ next_call' = n + 1
    /\ UNCHANGED <<session_vars, running, delta, undo_stack, redo_stack, saved_rev_id, saves, manager_vars,
                   store_vars, tasks, msgs, state_changes>>

SendCommand(kind, ty, pc) == MayIssue /\ send_command(kind, ty, pc)

\* A redo that sends the command of undo.
EditMsg_Redo_undo == "Undo"

\* The commands undo and redo send.
EditMsg_Undo == "Undo"
EditMsg_Redo == "Redo"

undo == SendCommand("Undo", EditMsg_Undo, "await_undo")
redo == SendCommand("Redo", EditMsg_Redo, "await_undo")
can_undo == SendCommand("CanUndo", "CanUndo", "await_bool")
can_redo == SendCommand("CanRedo", "CanRedo", "await_bool")
doc == SendCommand("Doc", "Doc", "await_doc")

\* An undo or redo that commits a revision of its own when an operation existed.
undo_replied_committed(n) ==
    /\ calls[n].pc = "await_undo"
    /\ Replied(CallRet(n))
    /\ LET r == rx[CallRet(n)] IN
       /\ calls' = [calls EXCEPT ![n].pc = IF ReplyFailed(r) THEN "failed" ELSE "ok",
                                 ![n].answer = ~ReplyFailed(r) /\ r.op # NoOp]
       /\ rev_id_counter' = IF ~ReplyFailed(r) /\ r.op # NoOp
                            THEN next_rev_id.rev_id ELSE rev_id_counter
    /\ rx' = [rx EXCEPT ![CallRet(n)] = NoChannel]
    /\ UNCHANGED <<session_vars, actor_vars, outbox, ws_sent, ws_state, store_vars, tasks,
                   count_vars>>

\* undo, redo: rx.await.map_err(internal_error)? : a dropped reply is an Err, otherwise
\* the Document Actor's result is the result of the call.
undo_replied(n) ==
    /\ calls[n].pc = "await_undo"
    /\ Replied(CallRet(n))
    /\ LET r == rx[CallRet(n)] IN
       calls' = [calls EXCEPT ![n].pc = IF ReplyFailed(r) THEN "failed" ELSE "ok",
                              ![n].answer = ~ReplyFailed(r) /\ r.op # NoOp]
    /\ rx' = [rx EXCEPT ![CallRet(n)] = NoChannel]
    /\ UNCHANGED <<session_vars, actor_vars, manager_vars, store_vars, tasks, count_vars>>

\* A peek that takes a dropped reply for a yes.
unwrap_or_true(r) == IF r.st = "closed" THEN TRUE ELSE r.flag

\* rx.await.unwrap_or(false)
unwrap_or_false(r) == IF r.st = "closed" THEN FALSE ELSE r.flag

\* can_undo, can_redo: the reply, or false for a dropped reply, is returned.
can_replied(n) ==
    /\ calls[n].pc = "await_bool"
    /\ Replied(CallRet(n))
    /\ calls' = [calls EXCEPT ![n].pc = "ok",
                              ![n].answer = unwrap_or_false(rx[CallRet(n)])]
    /\ rx' = [rx EXCEPT ![CallRet(n)] = NoChannel]
    /\ UNCHANGED <<session_vars, actor_vars, manager_vars, store_vars, tasks, count_vars>>

\* doc: a failed reply ends the call; otherwise the snapshot is the replied data with
\* the Revision Manager's rev_id as it is now.
doc_replied(n) ==
    /\ calls[n].pc = "await_doc"
    /\ Replied(CallRet(n))
    /\ LET r == rx[CallRet(n)] IN
       IF ReplyFailed(r)
       THEN Finished(n, "failed")
       ELSE calls' = [calls EXCEPT ![n].pc = "ok",
                                   ![n].data = r.data,
                                   ![n].rev_id = rev_id_counter]
    /\ rx' = [rx EXCEPT ![CallRet(n)] = NoChannel]
    /\ UNCHANGED <<session_vars, actor_vars, manager_vars, store_vars, tasks, count_vars>>

\* The steps by which the calls in flight go on.
LocalSteps ==
    \E n \in CallIds :
        \/ edit_replied(n)
        \/ mk_revision_add(n)
        \/ mk_revision_returned(n)
        \/ save_replied(n)
        \/ abandon(n)
        \/ undo_replied(n)
        \/ can_replied(n)
        \/ doc_replied(n)

LocalEdit ==
    \/ \E fits \in BOOLEAN : insert(fits)
    \/ \E fits \in BOOLEAN : delete(fits)
    \/ \E fits \in BOOLEAN : format(fits)
    \/ \E fits \in BOOLEAN : replace(fits)
    \/ \E data \in {BadBytes} \cup {Delta_to_bytes([op |-> LocalOp(next_call), fits |-> f]) :
                                    f \in BOOLEAN} :
          compose_local_delta(data)
    \/ undo
    \/ redo
    \/ can_undo
    \/ can_redo
    \/ doc
    \/ LocalSteps

\* ------------------------------------------------------------------ inbound messages
\* receive: the handler of the message is spawned as a task of its own.
receive(ty, wf, revision, range, rev_id) ==
    /\ MayIssue
    /\ msgs' = msgs + 1
    /\ tasks' = [tasks EXCEPT ![msgs + 1] =
                    [NoTask EXCEPT !.pc = "spawned", !.ty = ty, !.wf = wf, !.revision = revision,
                                   !.range = range, !.rev_id = rev_id]]
    /\ UNCHANGED <<session_vars, actor_vars, manager_vars, store_vars, calls, rx, next_call, state_changes>>

\* The spawned task ends; an Err is logged.
Ended(t, result) == tasks' = [tasks EXCEPT ![t].pc = "done", ![t].result = result]

\* A handler that adds the revision whether or not its bytes decoded.
handle_push_rev_undecoded(t) ==
    /\ tasks[t].pc = "spawned"
    /\ tasks[t].ty = "PushRev"
    /\ \E io_ok \in IoOutcomes :
        /\ add_revision(tasks[t].revision, io_ok)
        /\ tasks' = [tasks EXCEPT ![t].pc = "added",
                                  ![t].matched = (tasks[t].revision.base_rev_id = rev_id_counter),
                                  ![t].added = Persists(tasks[t].revision, io_ok)]
    /\ UNCHANGED <<session_vars, actor_vars, rev_id_counter, ws_state, calls, rx, count_vars>>

\* PushRev, handle_push_rev up to add_revision(revision).await: the revision is
\* decoded and added.
handle_push_rev(t) ==
    /\ tasks[t].pc = "spawned"
    /\ tasks[t].ty = "PushRev"
    /\ IF ~tasks[t].wf
       THEN /\ Ended(t, "err")
            /\ UNCHANGED <<store_vars, outbox, ws_sent>>
       ELSE \E io_ok \in IoOutcomes :
            /\ add_revision(tasks[t].revision, io_ok)
            /\ tasks' = [tasks EXCEPT ![t].pc = "added",
                                      ![t].matched = (tasks[t].revision.base_rev_id = rev_id_counter),
                                      ![t].added = Persists(tasks[t].revision, io_ok)]
    /\ UNCHANGED <<session_vars, actor_vars, rev_id_counter, ws_state, calls, rx, count_vars>>

\* handle_push_rev after add_revision returned: an Err ends the task; otherwise the
\* delta is decoded and sent to the Document Actor.
handle_push_rev_added(t) ==
    /\ tasks[t].pc = "added"
    /\ LET decoded == Delta_from_bytes(tasks[t].revision.delta_data) IN
       IF tasks[t].added /\ decoded.ok
       THEN /\ document' = Sent(EditMsg("Delta", decoded.delta, NoRev, TaskRet(t)))
            /\ rx' = [rx EXCEPT ![TaskRet(t)] = Receiver]
            /\ tasks' = [tasks EXCEPT ![t].pc = "await_delta"]
       ELSE /\ Ended(t, "err")
            /\ UNCHANGED <<document, rx>>
    /\ UNCHANGED <<session_vars, running, delta, undo_stack, redo_stack, saved_rev_id, saves, manager_vars,
                   store_vars, calls, count_vars>>

\* handle_push_rev after the Document Actor replied: an Err ends the task; otherwise
\* the Document Actor is checkpointed at the revision's rev_id.
handle_push_rev_applied(t) ==
    /\ tasks[t].pc = "await_delta"
    /\ Replied(TaskRet(t))
    /\ IF ReplyFailed(rx[TaskRet(t)])
       THEN /\ Ended(t, "err")
            /\ rx' = [rx EXCEPT ![TaskRet(t)] = NoChannel]
            /\ UNCHANGED document
       ELSE /\ save_document(TaskRet(t), tasks[t].revision.rev_id)
            /\ tasks' = [tasks EXCEPT ![t].pc = "await_save"]
    /\ UNCHANGED <<session_vars, running, delta, undo_stack, redo_stack, saved_rev_id, saves, manager_vars,
                   store_vars, calls, count_vars>>

\* handle_push_rev after save_document returned: its result is ignored.
handle_push_rev_saved(t) ==
    /\ tasks[t].pc = "await_save"
    /\ Replied(TaskRet(t))
    /\ Ended(t, "ok")
    /\ rx' = [rx EXCEPT ![TaskRet(t)] = NoChannel]
    /\ UNCHANGED <<session_vars, actor_vars, manager_vars, store_vars, calls, count_vars>>

\* PullRev: the range is decoded and its revisions are sent.
handle_pull_rev(t) ==
    /\ tasks[t].pc = "spawned"
    /\ tasks[t].ty = "PullRev"
    /\ IF tasks[t].wf
       THEN /\ send_revisions(tasks[t].range)
            /\ Ended(t, "ok")
       ELSE /\ Ended(t, "err")
            /\ UNCHANGED ws_sent
    /\ UNCHANGED <<session_vars, actor_vars, rev_id_counter, outbox, ws_state, store_vars, calls, rx,
                   count_vars>>

\* An acknowledgment that empties the outbox.
handle_acked_all(t) ==
    /\ tasks[t].pc = "spawned"
    /\ tasks[t].ty = "Acked"
    /\ IF tasks[t].wf
       THEN /\ outbox' = {}
            /\ Ended(t, "ok")
       ELSE /\ Ended(t, "err")
            /\ UNCHANGED outbox
    /\ UNCHANGED <<session_vars, actor_vars, rev_id_counter, ws_sent, ws_state, store_vars, calls, rx,
                   count_vars>>

\* Acked: the rev_id is decoded and acknowledged.
handle_acked(t) ==
    /\ tasks[t].pc = "spawned"
    /\ tasks[t].ty = "Acked"
    /\ IF tasks[t].wf
       THEN /\ ack_rev(tasks[t].rev_id)
            /\ Ended(t, "ok")
       ELSE /\ Ended(t, "err")
            /\ UNCHANGED outbox
    /\ UNCHANGED <<session_vars, actor_vars, rev_id_counter, ws_sent, ws_state, store_vars, calls, rx,
                   count_vars>>

\* NewDocUser, Conflict: nothing is done.
handle_nothing(t) ==
    /\ tasks[t].pc = "spawned"
    /\ tasks[t].ty \in {"NewDocUser", "Conflict"}
    /\ Ended(t, "ok")
    /\ UNCHANGED <<session_vars, actor_vars, manager_vars, store_vars, calls, rx, count_vars>>

\* A transition that is not forwarded to the Revision Manager.
state_changed_dropped(state) ==
    /\ new_pc = "ok"
    /\ state_changes < MaxStateChanges
    /\ state # ws_state
    /\ state_changes' = state_changes + 1
    /\ ws_state' = state
    /\ UNCHANGED <<session_vars, actor_vars, rev_id_counter, outbox, ws_sent, store_vars, calls, tasks, rx,
                   next_call, msgs>>

\* state_changed: the transition is forwarded to the Revision Manager.
state_changed(state) ==
    /\ new_pc = "ok"
    /\ state_changes < MaxStateChanges
    /\ state # ws_state
    /\ state_changes' = state_changes + 1
    /\ handle_ws_state_changed(state)
    /\ UNCHANGED <<session_vars, actor_vars, rev_id_counter, outbox, store_vars, calls, tasks, rx,
                   next_call, msgs>>

\* The payloads the transport delivers.
PushBases == InitRevId .. (InitRevId + MaxPushBase)
PushedRevisions ==
    {Revision_new(b, b + 1, d, "Remote") :
        b \in PushBases,
        d \in {BadBytes} \cup {Delta_to_bytes([op |-> RemoteOp(msgs + 1), fits |-> f]) : f \in BOOLEAN}}
PulledRanges ==
    {[start |-> InitRevId + 1, end |-> e] : e \in (InitRevId + 1) .. (InitRevId + 1 + MaxPushBase)}
AckedRevIds == (InitRevId + 1) .. (InitRevId + 1 + MaxPushBase)

Inbound ==
    \/ \E revision \in PushedRevisions : receive("PushRev", TRUE, revision, NoRange, NoRev)
    \/ receive("PushRev", FALSE, NoRevision, NoRange, NoRev)
    \/ \E range \in PulledRanges : receive("PullRev", TRUE, NoRevision, range, NoRev)
    \/ receive("PullRev", FALSE, NoRevision, NoRange, NoRev)
    \/ \E rev_id \in AckedRevIds : receive("Acked", TRUE, NoRevision, NoRange, rev_id)
    \/ receive("Acked", FALSE, NoRevision, NoRange, NoRev)
    \/ receive("NewDocUser", TRUE, NoRevision, NoRange, NoRev)
    \/ receive("Conflict", TRUE, NoRevision, NoRange, NoRev)
    \/ \E t \in MsgIds :
          \/ handle_push_rev(t)
          \/ handle_push_rev_added(t)
          \/ handle_push_rev_applied(t)
          \/ handle_push_rev_saved(t)
          \/ handle_pull_rev(t)
          \/ handle_acked(t)
          \/ handle_nothing(t)
    \/ \E state \in {"Connected", "Disconnected"} : state_changed(state)

Next ==
    \/ new
    \/ DocumentEditActor_handle
    \/ DocumentEditActor_stop
    \/ LocalEdit
    \/ Inbound

Spec == Init /\ [][Next]_vars

\* ------------------------------------------------------------------ a sequential session
\* One caller that awaits each call before the next: up to MaxMutations edits, then
\* undos, at most as many as the edits, then redos, at most as many as the undos.
Idle ==
    /\ new_pc = "ok"
    /\ document = <<>>
    /\ \A n \in CallIds : calls[n].pc \in {"unused", "ok", "failed"}

CallsOf(kinds) == {n \in CallIds : calls[n].kind \in kinds}

seq_edit ==
    /\ Idle
    /\ CallsOf({"Undo", "Redo"}) = {}
    /\ Cardinality(CallsOf(EditKinds)) < MaxMutations
    /\ \E kind \in EditKinds, fits \in BOOLEAN : send_edit(kind, fits)

seq_undo ==
    /\ Idle
    /\ CallsOf({"Redo"}) = {}
    /\ Cardinality(CallsOf({"Undo"})) < Cardinality(CallsOf(EditKinds))
    /\ send_command("Undo", EditMsg_Undo, "await_undo")

seq_redo ==
    /\ Idle
    /\ Cardinality(CallsOf({"Redo"})) < Cardinality(CallsOf({"Undo"}))
    /\ send_command("Redo", EditMsg_Redo, "await_undo")

NextUndo ==
    \/ new
    \/ DocumentEditActor_handle
    \/ seq_edit
    \/ seq_undo
    \/ seq_redo
    \/ \E n \in CallIds :
          \/ edit_replied(n)
          \/ mk_revision_add(n)
          \/ mk_revision_returned(n)
          \/ save_replied(n)
          \/ undo_replied(n)

SpecUndo == Init /\ [][NextUndo]_vars

\* ------------------------------------------------------------------ properties
\* Nothing is in flight: every call returned or was abandoned, every task ended, the
\* Document Actor's mailbox is empty.
Quiescent ==
    /\ document = <<>>
    /\ \A n \in CallIds : calls[n].pc \in {"unused", "ok", "failed", "abandoned"}
    /\ \A t \in MsgIds : tasks[t].pc \in {"unused", "done"}

\* The local revisions passed to add_revision so far.
LocalHanded == {i \in 1..Len(handed) : handed[i].ty = "Local"}
\* The local mutations, in the order the Document Actor applied them.
AppliedLocal == SelectSeq(delta, IsLocalOp)
\* The deltas of the persisted chain, in chain order.
ChainContent == [i \in 1..Len(chain) |-> chain[i].delta_data.op]
\* The persisted chain has no gap and no duplicate.
ChainContiguous ==
    \A i \in 1..Len(chain) :
        /\ chain[i].rev_id = chain[i].base_rev_id + 1
        /\ chain[i].base_rev_id = IF i = 1 THEN InitRevId ELSE chain[i - 1].rev_id

\* C1: the revisions local edit calls hand to the Revision Manager never share a
\* rev_id, each has rev_id = base_rev_id + 1, and once no call holds a pair it has
\* not handed over yet, they are exactly the revisions InitRevId + 1 .. head, each
\* based on the rev_id of the one before.
C1_LocalRevisionsContiguous ==
    /\ \A i, j \in LocalHanded : handed[i].rev_id = handed[j].rev_id => i = j
    /\ \A i \in LocalHanded : handed[i].rev_id = handed[i].base_rev_id + 1
    /\ (\A n \in CallIds : calls[n].pc # "add_revision") =>
          /\ {handed[i].rev_id : i \in LocalHanded} = (InitRevId + 1) .. rev_id_counter
          /\ \A i \in LocalHanded :
                \/ handed[i].base_rev_id = InitRevId
                \/ \E j \in LocalHanded : handed[j].rev_id = handed[i].base_rev_id

\* Two concurrent calls handed their revisions over in the reverse of the order in
\* which they took their rev_ids.
C1_Witness ==
    /\ Len(handed) = 2
    /\ LocalHanded = {1, 2}
    /\ handed[1].rev_id = InitRevId + 2
    /\ handed[2].rev_id = InitRevId + 1

\* C2: the local revision with the N-th rev_id carries the delta of the N-th local
\* mutation the Document Actor applied (no mutation having been undone).
C2_RevisionOrderIsApplyOrder ==
    (\A n \in CallIds : calls[n].kind \notin {"Undo", "Redo"}) =>
        \A i \in LocalHanded :
            LET k == handed[i].rev_id - InitRevId IN
            /\ k \in 1..Len(AppliedLocal)
            /\ handed[i].delta_data.op = AppliedLocal[k]

\* C3: a local edit call whose delta the Document Actor rejected, or whose bytes did
\* not decode, took no rev_id and handed no revision over: the head counts exactly
\* the calls that took a pair.
C3_RejectedEditTakesNoRevId ==
    /\ \A n \in CallIds :
          calls[n].verdict \in {"rejected", "undecodable"} =>
              /\ calls[n].revision = NoRevision
              /\ \A i \in 1..Len(handed) : handed[i].delta_data.op # LocalOp(n)
    /\ rev_id_counter = InitRevId + Cardinality({n \in CallIds : calls[n].revision # NoRevision})

\* One call was rejected by the Document Actor, one had bytes that did not decode,
\* and both returned their failure.
C3_Witness ==
    /\ \E n \in CallIds : calls[n].verdict = "rejected" /\ calls[n].pc = "failed"
    /\ \E n \in CallIds : calls[n].verdict = "undecodable" /\ calls[n].pc = "failed"

\* C4: when a local edit call has returned a failure, its mutation is not part of
\* the document content.
C4_FailedEditLeavesContent ==
    \A n \in CallIds :
        calls[n].pc = "failed" => \A i \in 1..Len(delta) : delta[i] # LocalOp(n)

\* C5: when insert, delete, format or replace has returned Ok, the Document Actor
\* has handled a SaveDocument with the rev_id of the call's revision.
C5_EditsCheckpoint ==
    \A n \in CallIds :
        (calls[n].pc = "ok" /\ calls[n].kind \in EditKinds) =>
            \E i \in 1..Len(saves) : saves[i] = calls[n].revision.rev_id

\* C6: once a PushRev whose base_rev_id was the Revision Manager's head has been
\* committed and applied, the Document Actor still running, the head is at least the
\* revision's rev_id.
C6_MatchingPushAdvancesHead ==
    \A t \in MsgIds :
        (tasks[t].ty = "PushRev" /\ tasks[t].pc = "done" /\ tasks[t].result = "ok"
            /\ tasks[t].matched /\ running) =>
            rev_id_counter >= tasks[t].revision.rev_id

\* A well-formed PushRev whose base_rev_id was not the Revision Manager's head when
\* it was added, and whose handling has ended.
StalePush(t) ==
    /\ tasks[t].ty = "PushRev"
    /\ tasks[t].wf
    /\ tasks[t].pc = "done"
    /\ ~tasks[t].matched
    /\ tasks[t].revision.delta_data.wf
    /\ tasks[t].revision.delta_data.fits

\* C7: after a PushRev whose base_rev_id differs from the head, it being the only
\* inbound message, with no write failure of the store, no abandoned call and the
\* Document Actor running, and nothing left in flight, the persisted chain is
\* contiguous and the document content is the composition of the chain's deltas in
\* rev_id order.
C7_StalePushKeepsStateSound ==
    (/\ Quiescent
     /\ running
     /\ io_failures = 0
     /\ \A n \in CallIds : calls[n].pc # "abandoned"
     /\ \E t \in MsgIds :
           /\ StalePush(t)
           /\ \A u \in MsgIds \ {t} : tasks[u].pc = "unused") =>
        /\ ChainContiguous
        /\ delta = ChainContent

\* C8: handling Acked for a decodable rev_id ends without an error, removes from the
\* outbox the one entry with that rev_id if there is one, and changes nothing else.
C8_AckIdempotent ==
    [][\A t \in MsgIds :
          (tasks[t].pc = "spawned" /\ tasks[t].ty = "Acked" /\ tasks[t].wf
              /\ tasks'[t].pc = "done") =>
              /\ tasks'[t].result = "ok"
              /\ \A r \in outbox : r \in outbox' <=> r.rev_id # tasks[t].rev_id
              /\ outbox' \subseteq outbox
              /\ Cardinality(outbox) - Cardinality(outbox') <= 1
              /\ UNCHANGED <<actor_vars, rev_id_counter, ws_sent, ws_state, store_vars,
                             calls, rx, count_vars>>]_vars

\* A persisted revision was acknowledged and left the outbox, while another Acked for
\* a rev_id that is not in the outbox ended without error.
C8_Witness ==
    /\ \E t \in MsgIds, i \in 1..Len(chain) :
          /\ tasks[t].ty = "Acked" /\ tasks[t].pc = "done" /\ tasks[t].result = "ok"
          /\ chain[i].rev_id = tasks[t].rev_id
          /\ chain[i] \notin outbox
    /\ outbox = {}

\* C9: a connection transition transmits every revision of the outbox again, each
\* once and in ascending rev_id order; a disconnection transmits nothing.
C9_ReconnectRetransmitsOutbox ==
    [][state_changes' # state_changes =>
          LET sent == SubSeq(ws_sent', Len(ws_sent) + 1, Len(ws_sent')) IN
          /\ SubSeq(ws_sent', 1, Len(ws_sent)) = ws_sent
          /\ IF ws_state' = "Connected"
             THEN /\ {sent[i] : i \in 1..Len(sent)} = {r.rev_id : r \in outbox}
                  /\ Len(sent) = Cardinality(outbox)
                  /\ \A i, j \in 1..Len(sent) : i < j => sent[i] < sent[j]
             ELSE sent = <<>>]_vars

\* The web socket connected with two unacknowledged revisions in the outbox, and
\* both were transmitted again, the lower rev_id first.
C9_Witness ==
    /\ state_changes = 1
    /\ ws_state = "Connected"
    /\ Cardinality(outbox) = 2
    /\ Len(ws_sent) = 4
    /\ ws_sent[3] = InitRevId + 1
    /\ ws_sent[4] = InitRevId + 2

\* C10: once nothing is in flight, the mutation of an abandoned call that the
\* Document Actor applied is carried by a revision of the persisted chain.
C10_AbandonedEditIsCommitted ==
    Quiescent =>
        \A n \in CallIds :
            (calls[n].pc = "abandoned" /\ calls[n].verdict = "applied") =>
                \E i \in 1..Len(chain) :
                    chain[i].ty = "Local" /\ chain[i].delta_data.op = LocalOp(n)

\* C11: when new has failed, no Document Actor and no Revision Manager exists; after a
\* failed identity resolution no worker was spawned at all, and after a failed fetch
\* the Revision Store Worker, the only one spawned, has no sender to its mailbox left.
C11_ConstructionAllOrNothing ==
    /\ new_pc # "ok" =>
          /\ "DocumentEditActor" \notin spawned
          /\ "RevisionManager" \notin spawned
          /\ ~running
    /\ new_pc = "user_id_failed" => spawned = {} /\ rev_store = 0
    /\ new_pc = "fetch_failed" => spawned = {"RevisionStoreActor"} /\ rev_store = 0

\* The fetch failed after the Revision Store Worker was spawned.
C11_Witness ==
    /\ new_pc = "fetch_failed"
    /\ "RevisionStoreActor" \in spawned

\* C12: the handler of an inbound message whose payload does not decode, or of a
\* NewDocUser or Conflict message, ends at once, with the failure of a payload only
\* recorded, and changes nothing of the session, the Document Actor, the Revision
\* Manager, the store or any call.
C12_InboundFailuresOnlyLogged ==
    [][\A t \in MsgIds :
          (/\ tasks[t].pc = "spawned"
           /\ tasks'[t] # tasks[t]
           /\ ~tasks[t].wf \/ tasks[t].ty \in {"NewDocUser", "Conflict"}) =>
              /\ tasks'[t].pc = "done"
              /\ tasks'[t].result = IF tasks[t].wf THEN "ok" ELSE "err"
              /\ UNCHANGED <<session_vars, actor_vars, manager_vars, store_vars, calls, rx,
                             count_vars>>]_vars

\* A PushRev whose bytes did not decode ended with its error, and an insert of the
\* same session returned Ok.
C12_Witness ==
    /\ \E t \in MsgIds :
          /\ tasks[t].ty = "PushRev" /\ ~tasks[t].wf
          /\ tasks[t].pc = "done" /\ tasks[t].result = "err"
    /\ \E n \in CallIds : calls[n].kind = "Insert" /\ calls[n].pc = "ok"

\* The calls of can_undo and can_redo.
Peeks == {n \in CallIds : calls[n].kind \in {"CanUndo", "CanRedo"}}

\* C13: can_undo and can_redo never fail; they return true exactly when the Document
\* Actor reported a non-empty stack, and false when no report reached the caller.
C13_PeeksNeverFail ==
    \A n \in Peeks :
        /\ calls[n].pc \in {"await_bool", "ok"}
        /\ calls[n].pc = "ok" => (calls[n].answer <=> calls[n].verdict = "nonempty")
        /\ (calls[n].pc = "ok" /\ calls[n].verdict = "none") => ~calls[n].answer

\* One peek returned what the Document Actor reported; another, issued after the
\* Document Actor stopped, returned false.
C13_Witness ==
    /\ ~running
    /\ \E n \in Peeks : calls[n].pc = "ok" /\ calls[n].verdict = "empty"
    /\ \E n \in Peeks : calls[n].pc = "ok" /\ calls[n].verdict = "none" /\ ~calls[n].answer

\* The calls of undo and redo.
Undos == {n \in CallIds : calls[n].kind \in {"Undo", "Redo"}}

\* C14: no step of an undo or redo (the call sending its command, the Document Actor
\* handling that command, the call returning) changes the head, the outbox, the
\* persisted chain, the revisions added or the transmissions, and the call never
\* holds a revision.
C14_UndoRedoOnlyForward ==
    [][(\/ \E n \in CallIds : calls'[n] # calls[n] /\ calls'[n].kind \in {"Undo", "Redo"}
        \/ /\ document # <<>>
           /\ Head(document).ty \in {"Undo", "Redo"}
           /\ document' = Tail(document)) =>
          /\ UNCHANGED <<rev_id_counter, outbox, chain, handed, ws_sent>>
          /\ \A n \in CallIds :
                calls'[n].kind \in {"Undo", "Redo"} => calls'[n].revision = NoRevision]_vars

\* An insert was committed as the first revision and then undone: the content is
\* empty again, the head and the chain still hold the insert's revision.
C14_Witness ==
    /\ \E n \in Undos : calls[n].pc = "ok" /\ calls[n].verdict = "undone" /\ calls[n].answer
    /\ rev_id_counter = InitRevId + 1
    /\ Len(chain) = 1
    /\ delta = <<>>

Fallible == CallsOf(EditKinds \cup {"Compose", "Undo", "Redo", "Doc"})

C17_WatermarkNeverDecreases ==
    /\ \A i, j \in 1..Len(saves) : i < j => saves[i] <= saves[j]
    /\ \A i \in 1..Len(saves) : InitRevId <= saves[i]

\* C18: the data of a snapshot doc returned holds the delta of every local revision
\* up to the snapshot's rev_id (no mutation having been undone).
C18_SnapshotConsistent ==
    (\A n \in CallIds : calls[n].kind \notin {"Undo", "Redo"}) =>
        \A n \in CallsOf({"Doc"}) :
            calls[n].pc = "ok" =>
                \A m \in CallIds :
                    (/\ calls[m].revision # NoRevision
                     /\ calls[m].revision.rev_id <= calls[n].rev_id) =>
                        \E i \in 1..Len(calls[n].data) :
                            calls[n].data[i] = calls[m].revision.delta_data.op

\* C19: of two PushRev received one after the other, the second one's revision is
\* not added before the first one's, and the second one's delta is not composed into
\* the content before the first one's.
C19_InboundInArrivalOrder ==
    \A t, u \in MsgIds :
        (/\ t < u
         /\ tasks[t].ty = "PushRev" /\ tasks[t].wf
         /\ tasks[u].ty = "PushRev" /\ tasks[u].wf) =>
            /\ tasks[u].pc # "spawned" => tasks[t].pc # "spawned"
            /\ \A i, j \in 1..Len(delta) :
                  (delta[i] = RemoteOp(t) /\ delta[j] = RemoteOp(u)) => i < j

\* The rev_ids of the SaveDocument sent so far: handled, or still in the mailbox.
SavedRevIds ==
    {saves[i] : i \in 1..Len(saves)}
        \cup {document[i].rev_id : i \in {j \in 1..Len(document) : document[j].ty = "SaveDocument"}}

\* C20: a call or a PushRev handler that has sent its SaveDocument had its revision
\* added successfully and its delta applied by the Document Actor before; and every
\* rev_id a SaveDocument carries is the rev_id of such a revision.
C20_SaveOnlyAfterCommit ==
    /\ \A n \in CallIds :
          calls[n].pc = "await_save" => calls[n].added /\ calls[n].verdict = "applied"
    /\ \A t \in MsgIds :
          tasks[t].pc = "await_save" =>
              /\ tasks[t].added
              /\ \E i \in 1..Len(delta) : delta[i] = tasks[t].revision.delta_data.op
    /\ \A r \in SavedRevIds :
          \/ \E n \in CallIds :
                /\ calls[n].revision.rev_id = r
                /\ calls[n].added /\ calls[n].verdict = "applied"
          \/ \E t \in MsgIds :
                /\ tasks[t].revision.rev_id = r
                /\ tasks[t].added
                /\ \E i \in 1..Len(delta) : delta[i] = tasks[t].revision.delta_data.op

\* An insert and a PushRev each committed a revision and had their SaveDocument
\* handled, while an edit whose commit failed sent none.
C20_Witness ==
    /\ Len(saves) = 2
    /\ \E n \in CallsOf({"Insert"}) : calls[n].pc = "ok"
    /\ \E t \in MsgIds : tasks[t].ty = "PushRev" /\ tasks[t].pc = "done" /\ tasks[t].result = "ok"

====
